---------------------------- MODULE Spec2Model ----------------------------
(***************************************************************************)
(* K5lib: the free-IP-address finder (k5lib/network.py,                    *)
(* find_first_free_ip), alone and called by several callers side by side,  *)
(* the list-then-filter-by-name lookups (get_*_id), and the request,       *)
(* failure handling and return of every resource operation of              *)
(* k5lib/network.py and k5lib/image.py.                                    *)
(*                                                                         *)
(* Python values are tagged records: None, str (a sequence of              *)
(* one-character strings, so that Python's substring test `in` is          *)
(* computed and not assumed), IPv4Address (its integer value), a requests  *)
(* Response, a decoded JSON object, and a raised exception.                *)
(* IPv4 addresses are the integers ipaddress uses; every address of the    *)
(* model lies far below 2^32, so network_address + offset never leaves     *)
(* the IPv4 range (where ipaddress would raise AddressValueError).         *)
(***************************************************************************)
EXTENDS Integers, Sequences, FiniteSets, TLC

VARIABLES
    subnets,       \* remote: the 'subnets' collection the API lists
    ports,         \* remote: the 'ports' collection the API lists
    pc,            \* position of the find_first_free_ip call
    args,          \* the arguments the call was made with
    offset,        \* local: offset after "Verify offset"
    subnet_id,     \* local: subnet_id (as passed, or resolved from the name)
    dict_subnets,  \* local: subnet_list['subnets']
    i,             \* local: index in dict_subnets of the subnet being handled
    dict_ports,    \* local: port_list['ports'] of the latest port listing
    ip_list,       \* local: the reserved addresses collected so far
    result,        \* what the call returned (or raised)
    http,          \* the HTTP requests the call issued, in order
    listing,       \* lookup: the collection a get_*_id operation is given
    lookup,        \* lookup: the last get_*_id call and what it returned
    invocation,    \* operation: the one invocation of a resource operation
    callers        \* callers: the find_first_free_ip call each caller is in

vars == <<subnets, ports, pc, args, offset, subnet_id, dict_subnets, i,
          dict_ports, ip_list, result, http, listing, lookup, invocation,
          callers>>

finderVars == <<subnets, ports, pc, args, offset, subnet_id, dict_subnets, i,
                dict_ports, ip_list, result, http>>

lookupVars == <<listing, lookup>>

opVars == <<invocation>>

callerVars == <<callers>>

---------------------------------------------------------------------------
(* Bounds of the model.                                                    *)

MaxSubnets == 2

MaxPorts == 1

MaxOffset == 2

MaxListing == 3

---------------------------------------------------------------------------
(* Python values.                                                          *)

None == [t |-> "NoneType"]

PyStr(s) == [t |-> "str", v |-> s]

IPv4Address(n) == [t |-> "IPv4Address", v |-> n]

Raised(e) == [t |-> "raise", v |-> e]

Range(s) == {s[k] : k \in 1..Len(s)}

Min(S) == CHOOSE x \in S : \A y \in S : x <= y

\* Python's `a in b` on two str values: a is a substring of b.
StrIn(a, b) ==
    \E k \in 0..(Len(b) - Len(a)) : SubSeq(b, k + 1, k + Len(a)) = a

\* Python truthiness of an argument that is None, a str or an int.
Truthy(x) ==
    CASE x.t = "NoneType" -> FALSE
      [] x.t = "str" -> x.v # <<>>
      [] x.t = "int" -> x.v # 0
      [] OTHER -> TRUE

PyInt(n) == [t |-> "int", v |-> n]

S_Error == <<"E", "r", "r", "o", "r">>

S_ErrorColon == S_Error \o <<":", " ">>

S_NotFound == S_ErrorColon \o <<"N", "o", "t", " ", "f", "o", "u", "n", "d">>

S_NoSubnetId ==
    S_ErrorColon \o <<"n", "o", " ", "s", "u", "b", "n", "e", "t", " ",
                      "I", "D", " ", "a", "v", "a", "i", "l", "a", "b", "l", "e">>

---------------------------------------------------------------------------
(* Transport: one GET of a collection.                                     *)

Statuses == {200, 404}

DigitChar(d) ==
    CASE d = 0 -> "0" [] d = 1 -> "1" [] d = 2 -> "2" [] d = 3 -> "3"
      [] d = 4 -> "4" [] d = 5 -> "5" [] d = 6 -> "6" [] d = 7 -> "7"
      [] d = 8 -> "8" [] d = 9 -> "9"

StatusStr(status) ==
    <<DigitChar(status \div 100), DigitChar((status \div 10) % 10),
      DigitChar(status % 10)>>

\* str(e) of the HTTPError raise_for_status raises: "<status> Client Error..."
\* for 4xx and "<status> Server Error..." for 5xx.
HTTPErrorStr(status) ==
    StatusStr(status) \o
    (IF status < 500 THEN <<" ", "C", "l", "i", "e", "n", "t">>
                     ELSE <<" ", "S", "e", "r", "v", "e", "r">>) \o
    <<" ">> \o S_Error

\* Response.raise_for_status() raises HTTPError exactly for 400 <= status < 600.
RaisesForStatus(status) == status >= 400 /\ status < 600

Response(status, key, coll) ==
    [t |-> "Response", status |-> status, key |-> key, coll |-> coll]

\* str() of a value the transport functions return: the str itself, or
\* "<Response [status]>".
Str(x) ==
    IF x.t = "str" THEN x.v
    ELSE <<"<", "R", "e", "s", "p", "o", "n", "s", "e", " ", "[">> \o
         StatusStr(x.status) \o <<"]", ">">>

\* A _rest_list_* function, the GET answered with `status`: the error string
\* when raise_for_status() raises HTTPError, else the Response.
RestList(status, key, coll) ==
    IF RaisesForStatus(status)
    THEN PyStr(S_ErrorColon \o HTTPErrorStr(status))
    ELSE Response(status, key, coll)

\* A _rest_list_* function whose except branch logs json.dumps(configData):
\* configData is not defined there, so the branch raises NameError.
RestListLoggingBody(status, key, coll) ==
    IF RaisesForStatus(status)
    THEN Raised("NameError")
    ELSE Response(status, key, coll)

_rest_list_network_connector_endpoints(status, coll) ==
    RestListLoggingBody(status, "network_connector_endpoints", coll)

_rest_list_ports(status, coll) == RestList(status, "ports", coll)

_rest_list_network_connectors(status, coll) ==
    RestList(status, "network_connectors", coll)

_rest_list_networks(status, coll) == RestList(status, "networks", coll)

_rest_list_subnets(status, coll) == RestList(status, "subnets", coll)

_rest_list_security_groups(status, coll) ==
    RestListLoggingBody(status, "security_groups", coll)

_rest_list_routers(status, coll) ==
    RestListLoggingBody(status, "routers", coll)

_rest_list_images(status, coll) == RestList(status, "images", coll)

\* list_subnets / list_ports: the error string, or request.json().
ListOf(request) ==
    IF StrIn(S_Error, Str(request))
    THEN PyStr(Str(request))
    ELSE [t |-> "dict", key |-> request.key, coll |-> request.coll]

list_subnets(status, coll) == ListOf(_rest_list_subnets(status, coll))

list_ports(status, coll) == ListOf(_rest_list_ports(status, coll))

---------------------------------------------------------------------------
(* ipaddress: networks and their hosts.                                    *)

RECURSIVE Pow2(_)
Pow2(n) == IF n = 0 THEN 1 ELSE 2 * Pow2(n - 1)

\* The integer of the dotted quad a.b.c.d.
IPv4(a, b, c, d) == ((a * 256 + b) * 256 + c) * 256 + d

\* ipaddress.IPv4Network(cidr): the network address and the prefix length.
IPv4Network(cidr) == [network_address |-> cidr.addr, prefixlen |-> cidr.len]

broadcast_address(network) ==
    network.network_address + Pow2(32 - network.prefixlen) - 1

\* IPv4Network.hosts(), in ascending order: every address but the network
\* and the broadcast address; both addresses of a /31; the address of a /32.
hosts(network) ==
    LET lo == IF network.prefixlen >= 31 THEN network.network_address
              ELSE network.network_address + 1
        hi == IF network.prefixlen >= 31 THEN broadcast_address(network)
              ELSE broadcast_address(network) - 1
    IN [k \in 1..(hi - lo + 1) |-> lo + k - 1]

---------------------------------------------------------------------------
(* The get_*_id operations: list, then filter by name.                     *)

S_ImageNotFound ==
    S_ErrorColon \o <<"I", "m", "a", "g", "e", " ", "n", "o", "t", " ",
                      "f", "o", "u", "n", "d">>

\* The scan loop of a get_*_id operation: the IDs of the resources whose
\* name equals `name`, appended in listing order.
RECURSIVE outputList_Prepending(_, _)
outputList_Prepending(outputDict, name) ==
    IF outputDict = <<>> THEN <<>>
    ELSE outputList_Prepending(Tail(outputDict), name)
         \o (IF Head(outputDict).name = name
             THEN <<Head(outputDict).id>> ELSE <<>>)

RECURSIVE outputList_Containing(_, _)
outputList_Containing(outputDict, name) ==
    IF outputDict = <<>> THEN <<>>
    ELSE (IF StrIn(name, Head(outputDict).name)
          THEN <<Head(outputDict).id>> ELSE <<>>)
         \o outputList_Containing(Tail(outputDict), name)

RECURSIVE outputList(_, _)
outputList(outputDict, name) ==
    IF outputDict = <<>> THEN <<>>
    ELSE (IF Head(outputDict).name = name
          THEN <<Head(outputDict).id>> ELSE <<>>)
         \o outputList(Tail(outputDict), name)

\* The body the get_*_id operations share, after the listing request: an
\* exception of the transport function propagates; its error string is
\* returned; else outputList[0] when the counter is positive, and
\* `notFound` otherwise.
LookupByName(request, name, notFound) ==
    IF request.t = "raise" THEN request
    ELSE IF StrIn(S_Error, Str(request)) THEN PyStr(Str(request))
    ELSE LET ids == outputList(request.coll, name)
         IN IF Len(ids) > 0 THEN PyStr(ids[1]) ELSE notFound

get_network_id(status, coll, network_name) ==
    LookupByName(_rest_list_networks(status, coll), network_name,
                 PyStr(S_NotFound))

get_subnet_id(status, coll, subnet_name) ==
    LookupByName(_rest_list_subnets(status, coll), subnet_name,
                 PyStr(S_NotFound))

get_port_id(status, coll, port_name) ==
    LookupByName(_rest_list_ports(status, coll), port_name,
                 PyStr(S_NotFound))

get_router_id(status, coll, router_name) ==
    LookupByName(_rest_list_routers(status, coll), router_name,
                 PyStr(S_NotFound))

get_network_connector_id(status, coll, connector_name) ==
    LookupByName(_rest_list_network_connectors(status, coll), connector_name,
                 PyStr(S_NotFound))

\* Zero matches: `return '0'`.
get_security_group_id(status, coll, sg_name) ==
    LookupByName(_rest_list_security_groups(status, coll), sg_name,
                 PyStr(<<"0">>))

\* Zero matches: `return outputList[0]` on the empty list raises IndexError.
get_network_connector_endpoint_id(status, coll, endpoint_name) ==
    LookupByName(_rest_list_network_connector_endpoints(status, coll),
                 endpoint_name, Raised("IndexError"))

\* Zero matches: `return 'Error: Image not found'`.
get_image_id(status, coll, image_name) ==
    LookupByName(_rest_list_images(status, coll), image_name,
                 PyStr(S_ImageNotFound))

---------------------------------------------------------------------------
(* find_first_free_ip.                                                     *)

\* "Verify offset": `if not offset: offset = 0`.
VerifyOffset(o) == IF ~Truthy(o) THEN 0 ELSE o.v

\* `if i['id'] in subnet_id`: the test that selects a listed subnet.
SubnetMatches(subnet, sid) == StrIn(subnet.id, sid)

\* `if k['subnet_id'] in subnet_id`: the test that selects a fixed IP.
FixedIpMatches_Never(k, sid) == FALSE

FixedIpMatches(k, sid) == StrIn(k.subnet_id, sid)

\* The index of the next subnet of the listing, from `from` on, that the
\* loop over dict_subnets selects; 0 when the loop ends without one.
NextSubnet(dict, sid, from) ==
    LET S == {k \in from..Len(dict) : SubnetMatches(dict[k], sid)}
    IN IF S = {} THEN 0 ELSE Min(S)

\* The inner loop over one port's fixed_ips: the addresses of the fixed IPs
\* it selects, in order.
CollectFixedIps(fixed_ips, sid) ==
    LET selected == SelectSeq(fixed_ips, LAMBDA k : FixedIpMatches(k, sid))
    IN [j \in 1..Len(selected) |-> selected[j].ip_address]

CollectPorts_HeadOnly(dict, sid) ==
    IF dict = <<>> THEN <<>>
    ELSE CollectFixedIps(Head(dict).fixed_ips, sid)

\* The loop over dict_ports: the addresses appended to ip_list.
RECURSIVE CollectPorts(_, _)
CollectPorts(dict, sid) ==
    IF dict = <<>> THEN <<>>
    ELSE CollectFixedIps(Head(dict).fixed_ips, sid)
         \o CollectPorts(Tail(dict), sid)

\* `if ipaddress.IPv4Address(l) > network.network_address + offset`.
PastOffset_AtOrAbove(l, network, off) == l >= network.network_address + off

PastOffset(l, network, off) == l > network.network_address + off

\* The loop over network.hosts(): the first address, in the order of
\* hosts(), that is past the offset and not in ip_list; None when the loop
\* runs out.
ScanHosts(h, network, off, ips) ==
    LET reserved == Range(ips)
        hit == {k \in 1..Len(h) :
                   PastOffset(h[k], network, off) /\ h[k] \notin reserved}
    IN IF hit = {} THEN None ELSE IPv4Address(h[Min(hit)])

---------------------------------------------------------------------------
(* The remote state and the arguments the model draws from.                *)

IdA == <<"a">>

IdAB == <<"a", "b">>

IdC == <<"c">>

NameX == <<"x">>

NameY == <<"y">>

NameUpperX == <<"X">>

NameXX == <<"x", "x">>

Cidr(addr, len) == [addr |-> addr, len |-> len]

Subnet(id, name, cidr) == [id |-> id, name |-> name, cidr |-> cidr]

\* Two subnets per ID. IdA is a substring of IdAB; IdC is not.
SubnetPool ==
    { Subnet(IdAB, NameX, Cidr(IPv4(10, 0, 0, 0), 30)),
      Subnet(IdAB, NameY, Cidr(IPv4(10, 0, 0, 4), 31)),
      Subnet(IdA, NameX, Cidr(IPv4(10, 0, 0, 4), 31)),
      Subnet(IdA, NameY, Cidr(IPv4(10, 0, 0, 0), 30)),
      Subnet(IdC, NameX, Cidr(IPv4(10, 0, 0, 4), 30)),
      Subnet(IdC, NameY, Cidr(IPv4(10, 0, 0, 0), 30)) }

\* The sequences of at most n elements of S.
SeqsUpTo(S, n) == UNION {[1..k -> S] : k \in 0..n}

DistinctIds(s) == \A j, k \in 1..Len(s) : j # k => s[j].id # s[k].id

\* The subnet listings: IDs are unique, names need not be.
SubnetListings == {s \in SeqsUpTo(SubnetPool, MaxSubnets) : DistinctIds(s)}

FixedIp(sid, addr) == [subnet_id |-> sid, ip_address |-> addr]

Port(id, fixed_ips) == [id |-> id, name |-> NameX, fixed_ips |-> fixed_ips]

PortPool ==
    { Port(<<"p", "0">>, <<>>),
      Port(<<"p", "1">>, <<FixedIp(IdAB, IPv4(10, 0, 0, 1))>>),
      Port(<<"p", "2">>, <<FixedIp(IdAB, IPv4(10, 0, 0, 1)),
                           FixedIp(IdAB, IPv4(10, 0, 0, 2))>>),
      Port(<<"p", "3">>, <<FixedIp(IdAB, IPv4(10, 0, 0, 5))>>),
      Port(<<"p", "4">>, <<FixedIp(IdA, IPv4(10, 0, 0, 1))>>),
      Port(<<"p", "5">>, <<FixedIp(IdC, IPv4(10, 0, 0, 1)),
                           FixedIp(IdC, IPv4(10, 0, 0, 5))>>) }

PortListings == {s \in SeqsUpTo(PortPool, MaxPorts) : DistinctIds(s)}

\* The /24 of the documented scenarios, and its two port listings: one port
\* holding 10.0.0.5, and one port holding every host address but 10.0.0.254.
Subnet24 == Subnet(IdAB, NameX, Cidr(IPv4(10, 0, 0, 0), 24))

PortHolding5 == Port(<<"p", "1">>, <<FixedIp(IdAB, IPv4(10, 0, 0, 5))>>)

PortHoldingAllBut254 ==
    Port(<<"p", "2">>, [k \in 1..253 |-> FixedIp(IdAB, IPv4(10, 0, 0, k))])

\* The arguments of a call: each of subnet_id and subnet_name given or not,
\* offset omitted or an integer.
SubnetIdArgs == {None, PyStr(IdAB)}

SubnetNameArgs == {None, PyStr(NameX)}

OffsetArgs == {None} \cup {PyInt(o) : o \in (0..MaxOffset) \cup {10}}

Pending == [t |-> "pending"]

\* The callers of find_first_free_ip that run side by side.
Callers == {1, 2}

\* A caller that has not called yet. `calls`, `previous` (what its previous
\* call returned) and `bound` (whether the address it returned was bound to
\* a remote port at the moment of the return) record the history; the other
\* fields are the locals of the call in progress.
IdleCaller ==
    [pc |-> "idle", calls |-> 0, previous |-> Pending, bound |-> FALSE,
     subnet_id |-> None, offset |-> 0, dict_subnets |-> <<>>, i |-> 0,
     dict_ports |-> <<>>, ip_list |-> <<>>, result |-> Pending, http |-> <<>>]

\* One HTTP request: its method, the collection it addresses, and the status
\* the API answered with.
Get(resource, status) ==
    [method |-> "GET", resource |-> resource, status |-> status]

\* The value returned when no subnet ID is available.
NoSubnetIdAvailable_Printed == None

NoSubnetIdAvailable == PyStr(S_NoSubnetId)

---------------------------------------------------------------------------
(* find_first_free_ip, one action per HTTP request it issues.              *)

Init ==
    /\ \/ subnets \in SubnetListings /\ ports \in PortListings
       \/ /\ subnets = <<Subnet24>>
          /\ ports \in {<<PortHolding5>>, <<PortHoldingAllBut254>>}
    /\ pc = "idle"
    /\ args = [subnet_id |-> None, subnet_name |-> None, offset |-> None]
    /\ offset = 0
    /\ subnet_id = None
    /\ dict_subnets = <<>>
    /\ i = 0
    /\ dict_ports = <<>>
    /\ ip_list = <<>>
    /\ result = Pending
    /\ http = <<>>
    /\ listing = <<>>
    /\ lookup = [op |-> "none"]
    /\ invocation = [pc |-> "idle"]
    /\ callers = [c \in Callers |-> IdleCaller]

\* The call, up to its first HTTP request: "Verify offset", and the return
\* of 'Error: no subnet ID available' when there is no name to resolve and
\* no subnet_id.
Call(sid, sname, off) ==
    /\ pc = "idle"
    /\ args' = [subnet_id |-> sid, subnet_name |-> sname, offset |-> off]
    /\ offset' = VerifyOffset(off)
    /\ subnet_id' = sid
    /\ IF Truthy(sname)
       THEN pc' = "get_subnet_id" /\ result' = result
       ELSE IF ~Truthy(sid)
            THEN pc' = "done" /\ result' = NoSubnetIdAvailable
            ELSE pc' = "list_subnets" /\ result' = result
    /\ UNCHANGED <<subnets, ports, dict_subnets, i, dict_ports, ip_list, http>>
    /\ UNCHANGED <<lookupVars, opVars, callerVars>>

\* The name resolved only when no subnet_id was passed.
GetSubnetId_KeepingGiven(status) ==
    /\ pc = "get_subnet_id"
    /\ http' = Append(http, Get("subnets", status))
    /\ LET id == IF Truthy(subnet_id) THEN subnet_id
                 ELSE get_subnet_id(status, subnets, args.subnet_name.v)
       IN /\ subnet_id' = id
          /\ IF ~Truthy(id)
             THEN pc' = "done" /\ result' = NoSubnetIdAvailable
             ELSE pc' = "list_subnets" /\ result' = result
    /\ UNCHANGED <<subnets, ports, args, offset, dict_subnets, i, dict_ports,
                   ip_list>>
    /\ UNCHANGED <<lookupVars, opVars, callerVars>>

\* subnet_id = get_subnet_id(...), then `if not subnet_id`.
GetSubnetId(status) ==
    /\ pc = "get_subnet_id"
    /\ http' = Append(http, Get("subnets", status))
    /\ LET id == get_subnet_id(status, subnets, args.subnet_name.v)
       IN /\ subnet_id' = id
          /\ IF ~Truthy(id)
             THEN pc' = "done" /\ result' = NoSubnetIdAvailable
             ELSE pc' = "list_subnets" /\ result' = result
    /\ UNCHANGED <<subnets, ports, args, offset, dict_subnets, i, dict_ports,
                   ip_list>>
    /\ UNCHANGED <<lookupVars, opVars, callerVars>>

\* subnet_list = list_subnets(...); subnet_list['subnets'] raises TypeError
\* on the error string; then the loop over dict_subnets up to the first
\* subnet it selects.
ListSubnets(status) ==
    /\ pc = "list_subnets"
    /\ http' = Append(http, Get("subnets", status))
    /\ LET subnet_list == list_subnets(status, subnets)
       IN IF subnet_list.t = "str"
          THEN /\ pc' = "done"
               /\ result' = Raised("TypeError")
               /\ UNCHANGED <<dict_subnets, i>>
          ELSE /\ dict_subnets' = subnet_list.coll
               /\ i' = NextSubnet(subnet_list.coll, subnet_id.v, 1)
               /\ IF i' = 0
                  THEN pc' = "done" /\ result' = None
                  ELSE pc' = "list_ports" /\ result' = result
    /\ UNCHANGED <<subnets, ports, args, offset, subnet_id, dict_ports, ip_list>>
    /\ UNCHANGED <<lookupVars, opVars, callerVars>>

\* For the selected subnet: port_list = list_ports(...); port_list['ports']
\* raises TypeError on the error string; the reserved addresses are appended
\* to ip_list; the hosts are scanned; without a free address the loop over
\* dict_subnets goes on to the next subnet it selects.
ListPorts(status) ==
    /\ pc = "list_ports"
    /\ http' = Append(http, Get("ports", status))
    /\ LET port_list == list_ports(status, ports)
       IN IF port_list.t = "str"
          THEN /\ pc' = "done"
               /\ result' = Raised("TypeError")
               /\ UNCHANGED <<i, dict_ports, ip_list>>
          ELSE LET network == IPv4Network(dict_subnets[i].cidr)
                   ips == ip_list \o CollectPorts(port_list.coll, subnet_id.v)
                   free == ScanHosts(hosts(network), network, offset, ips)
                   next == NextSubnet(dict_subnets, subnet_id.v, i + 1)
               IN /\ dict_ports' = port_list.coll
                  /\ ip_list' = ips
                  /\ IF free # None
                     THEN pc' = "done" /\ result' = free /\ i' = i
                     ELSE IF next = 0
                          THEN pc' = "done" /\ result' = None /\ i' = i
                          ELSE pc' = "list_ports" /\ result' = result
                               /\ i' = next
    /\ UNCHANGED <<subnets, ports, args, offset, subnet_id, dict_subnets>>
    /\ UNCHANGED <<lookupVars, opVars, callerVars>>

Next ==
    \/ \E sid \in SubnetIdArgs, sname \in SubnetNameArgs, off \in OffsetArgs :
           Call(sid, sname, off)
    \/ \E status \in Statuses : GetSubnetId(status)
    \/ \E status \in Statuses : ListSubnets(status)
    \/ \E status \in Statuses : ListPorts(status)

Spec == Init /\ [][Next]_vars

\* The loop over dict_subnets from index k on (0: no subnet left), every
\* port listing answering `coll`: what find_first_free_ip returns.
RECURSIVE SubnetLoop(_, _, _, _, _, _)
SubnetLoop(dict, k, coll, sid, off, ips) ==
    IF k = 0 THEN None
    ELSE LET network == IPv4Network(dict[k].cidr)
             ips2 == ips \o CollectPorts(coll, sid)
             free == ScanHosts(hosts(network), network, off, ips2)
         IN IF free # None THEN free
            ELSE SubnetLoop(dict, NextSubnet(dict, sid, k + 1), coll, sid,
                            off, ips2)

---------------------------------------------------------------------------
(* The get_*_id operations on one listing.                                 *)

Resource(id, name) == [id |-> id, name |-> name]

ResourceIds == {<<"1">>, <<"2">>, <<"3">>, <<"4">>}

ResourceNames == {NameX, NameUpperX, NameXX}

\* The names the lookups are called with.
LookupNames == {NameX, NameXX}

ResourcePool == {Resource(id, name) : id \in ResourceIds, name \in ResourceNames}

\* The listings: IDs are unique, names need not be.
Listings == {s \in SeqsUpTo(ResourcePool, MaxListing) : DistinctIds(s)}

InitLookup ==
    /\ subnets = <<>>
    /\ ports = <<>>
    /\ pc = "idle"
    /\ args = [subnet_id |-> None, subnet_name |-> None, offset |-> None]
    /\ offset = 0
    /\ subnet_id = None
    /\ dict_subnets = <<>>
    /\ i = 0
    /\ dict_ports = <<>>
    /\ ip_list = <<>>
    /\ result = Pending
    /\ http = <<>>
    /\ listing \in Listings
    /\ lookup = [op |-> "none"]
    /\ invocation = [pc |-> "idle"]
    /\ callers = [c \in Callers |-> IdleCaller]

Looked(op, name, status, res) ==
    [op |-> op, name |-> name, status |-> status, result |-> res]

GetNetworkId(name, status) ==
    /\ lookup' = Looked("get_network_id", name, status,
                        get_network_id(status, listing, name))
    /\ UNCHANGED <<listing, finderVars, opVars, callerVars>>

GetSubnetIdByName(name, status) ==
    /\ lookup' = Looked("get_subnet_id", name, status,
                        get_subnet_id(status, listing, name))
    /\ UNCHANGED <<listing, finderVars, opVars, callerVars>>

GetPortId(name, status) ==
    /\ lookup' = Looked("get_port_id", name, status,
                        get_port_id(status, listing, name))
    /\ UNCHANGED <<listing, finderVars, opVars, callerVars>>

GetRouterId(name, status) ==
    /\ lookup' = Looked("get_router_id", name, status,
                        get_router_id(status, listing, name))
    /\ UNCHANGED <<listing, finderVars, opVars, callerVars>>

GetSecurityGroupId(name, status) ==
    /\ lookup' = Looked("get_security_group_id", name, status,
                        get_security_group_id(status, listing, name))
    /\ UNCHANGED <<listing, finderVars, opVars, callerVars>>

GetNetworkConnectorId(name, status) ==
    /\ lookup' = Looked("get_network_connector_id", name, status,
                        get_network_connector_id(status, listing, name))
    /\ UNCHANGED <<listing, finderVars, opVars, callerVars>>

GetNetworkConnectorEndpointId(name, status) ==
    /\ lookup' = Looked("get_network_connector_endpoint_id", name, status,
                        get_network_connector_endpoint_id(status, listing, name))
    /\ UNCHANGED <<listing, finderVars, opVars, callerVars>>

GetImageId(name, status) ==
    /\ lookup' = Looked("get_image_id", name, status,
                        get_image_id(status, listing, name))
    /\ UNCHANGED <<listing, finderVars, opVars, callerVars>>

NextLookup ==
    \E name \in LookupNames, status \in Statuses :
        \/ GetNetworkId(name, status)
        \/ GetSubnetIdByName(name, status)
        \/ GetPortId(name, status)
        \/ GetRouterId(name, status)
        \/ GetSecurityGroupId(name, status)
        \/ GetNetworkConnectorId(name, status)
        \/ GetNetworkConnectorEndpointId(name, status)
        \/ GetImageId(name, status)

SpecLookup == InitLookup /\ [][NextLookup]_vars

---------------------------------------------------------------------------
(* The resource operations: one invocation, from the request it builds to  *)
(* the value it returns.                                                   *)

PyBool(b) == [t |-> "bool", v |-> b]

PyList(l) == [t |-> "list", v |-> l]

\* A dict: a function from its keys.
PyDict(d) == [t |-> "dict", v |-> d]

\* `for key in d.copy().keys(): if d[key] is None: del d[key]`.
\* The keys removed on `if not value` in place of `if value is None`.
DelNone_Falsy(d) ==
    [k \in {j \in DOMAIN d :
                d[j] \notin {[t |-> "NoneType"], [t |-> "bool", v |-> FALSE],
                             [t |-> "int", v |-> 0], [t |-> "list", v |-> <<>>],
                             [t |-> "str", v |-> <<>>]}} |-> d[k]]

DelNone(d) == [k \in {j \in DOMAIN d : d[j] # None} |-> d[k]]

Info(text) == [level |-> "info", arg |-> text]

Error(arg) == [level |-> "error", arg |-> arg]

\* The log.info records of a null-removing loop over the keys of d, in the
\* order of the dict literal; `verbose`: the loop also logs every key and
\* value it evaluates.
RECURSIVE RemovalLog(_, _, _)
RemovalLog(d, keys, verbose) ==
    IF keys = <<>> THEN <<>>
    ELSE (IF verbose THEN <<Info("Evaluate key"), Info("Evaluate value")>>
                     ELSE <<>>)
         \o (IF d[Head(keys)] = None THEN <<Info("Remove null value")>>
                                     ELSE <<>>)
         \o RemovalLog(d, Tail(keys), verbose)

\* A request body and the log records emitted while it was built.
Built(configData, records) == [json |-> configData, log |-> records]

\* The value of a parameter the caller gives.
Given == PyStr(<<"v">>)

\* The empty str: a value that is given and falsy.
Empty == PyStr(<<>>)

OptStr == {None, Empty, Given}

OptInt == {None, PyInt(0), PyInt(22)}

OptBool == {None, PyBool(FALSE), PyBool(TRUE)}

OptList == {None, PyList(<<>>), PyList(<<Given>>)}

\* fixed_ips built as soon as subnet_id or ip_address is given.
_rest_create_port_on_network_configData_SubnetAlone(port_name, securitygroup_id, port_subnet_id, ip_address) ==
    LET port == [network_id |-> Given,
                 name |-> port_name,
                 admin_state_up |-> PyBool(TRUE),
                 availability_zone |-> Given,
                 fixed_ips |->
                     IF ip_address = None /\ port_subnet_id = None THEN None
                     ELSE PyList(<<PyDict([ip_address |-> ip_address,
                                           subnet_id |-> port_subnet_id])>>),
                 security_groups |->
                     IF securitygroup_id = None THEN None
                     ELSE PyList(<<securitygroup_id>>)]
    IN Built(PyDict([port |-> PyDict(DelNone(port))]), <<>>)

_rest_create_port_on_network_configData(port_name, securitygroup_id, port_subnet_id, ip_address) ==
    LET securitygroup_id_list ==
            IF securitygroup_id = None THEN None
            ELSE PyList(<<securitygroup_id>>)
        fixed_ips_list ==
            IF ip_address = None THEN None
            ELSE PyList(<<PyDict([ip_address |-> ip_address,
                                  subnet_id |-> port_subnet_id])>>)
        port == [network_id |-> Given,
                 name |-> port_name,
                 admin_state_up |-> PyBool(TRUE),
                 availability_zone |-> Given,
                 fixed_ips |-> fixed_ips_list,
                 security_groups |-> securitygroup_id_list]
    IN Built(PyDict([port |-> PyDict(DelNone(port))]),
             RemovalLog(port, <<"network_id", "name", "admin_state_up",
                                "availability_zone", "fixed_ips",
                                "security_groups">>, TRUE))

_rest_create_subnet_configData(az, enable_dhcp, allocation_pools, dns_nameservers, host_routes, gateway_ip) ==
    LET subnet == [name |-> Given,
                   network_id |-> Given,
                   ip_version |-> Given,
                   cidr |-> Given,
                   availability_zone |-> az,
                   enable_dhcp |-> enable_dhcp,
                   allocation_pools |-> allocation_pools,
                   dns_nameservers |-> dns_nameservers,
                   host_routes |-> host_routes,
                   gateway_ip |-> gateway_ip]
    IN Built(PyDict([subnet |-> PyDict(DelNone(subnet))]),
             RemovalLog(subnet, <<"name", "network_id", "ip_version", "cidr",
                                  "availability_zone", "enable_dhcp",
                                  "allocation_pools", "dns_nameservers",
                                  "host_routes", "gateway_ip">>, FALSE))

_rest_create_security_group_rule_configData(protocol, port_range_min, port_range_max, remote_ip_prefix, remote_group_id) ==
    LET security_group_rule == [direction |-> Given,
                                port_range_min |-> port_range_min,
                                ethertype |-> Given,
                                port_range_max |-> port_range_max,
                                protocol |-> protocol,
                                remote_group_id |-> remote_group_id,
                                security_group_id |-> Given,
                                remote_ip_prefix |-> remote_ip_prefix]
    IN Built(PyDict([security_group_rule |->
                         PyDict(DelNone(security_group_rule))]),
             RemovalLog(security_group_rule,
                        <<"direction", "port_range_min", "ethertype",
                          "port_range_max", "protocol", "remote_group_id",
                          "security_group_id", "remote_ip_prefix">>, FALSE))

_rest_create_router_configData(name, az, admin_state_up) ==
    LET router == [name |-> name,
                   availability_zone |-> az,
                   admin_state_up |-> admin_state_up]
    IN Built(PyDict([router |-> PyDict(DelNone(router))]),
             RemovalLog(router, <<"name", "availability_zone",
                                  "admin_state_up">>, FALSE))

\* external_gateway_info is deleted when its network_id is None; the loop
\* then runs over the keys that are left.
_rest_update_router_configData(name, az, admin_state_up, network_id, route_table) ==
    LET plain == [name |-> name,
                  availability_zone |-> az,
                  admin_state_up |-> admin_state_up,
                  routes |-> route_table]
        gateway == [name |-> name,
                    availability_zone |-> az,
                    admin_state_up |-> admin_state_up,
                    external_gateway_info |->
                        PyDict([network_id |-> network_id]),
                    routes |-> route_table]
    IN IF network_id = None
       THEN Built(PyDict([router |-> PyDict(DelNone(plain))]),
                  RemovalLog(plain, <<"name", "availability_zone",
                                      "admin_state_up", "routes">>, FALSE))
       ELSE Built(PyDict([router |-> PyDict(DelNone(gateway))]),
                  RemovalLog(gateway, <<"name", "availability_zone",
                                        "admin_state_up",
                                        "external_gateway_info", "routes">>,
                             FALSE))

\* _rest_add_router_interface and _rest_remove_router_interface build the
\* same body.
_rest_add_router_interface_configData_Exclusive(interface_subnet_id, port_id) ==
    Built(PyDict(DelNone([subnet_id |-> interface_subnet_id,
                          port_id |-> IF interface_subnet_id = None
                                      THEN port_id ELSE None])),
          <<>>)

_rest_add_router_interface_configData(interface_subnet_id, port_id) ==
    Built(PyDict(DelNone([subnet_id |-> interface_subnet_id,
                          port_id |-> port_id])),
          <<>>)

\* The body of a request built from required parameters only.
Opaque == [t |-> "object"]

Transport(method, json, configData, logs) ==
    [method |-> method, json |-> json, configData |-> configData,
     logs |-> logs]

Operation(rest, returns, error) ==
    [rest |-> rest, returns |-> returns, error |-> error]

\* The transport functions of k5lib/network.py: the HTTP method of the one
\* request, whether the request carries json=configData, whether the function
\* assigns configData at all, and what the log.error calls of the
\* `except requests.exceptions.HTTPError` branch evaluate, in order.
NetworkTransports ==
    [  _rest_create_network_connector |->
         Transport("POST", TRUE, TRUE, <<"configData">>),
       _rest_create_network_connector_endpoint |->
         Transport("POST", TRUE, TRUE, <<"configData">>),
       _rest_list_network_connector_endpoints |->
         Transport("GET", FALSE, FALSE, <<"configData">>),
       _rest_get_network_connector_endpoint_info |->
         Transport("GET", FALSE, FALSE, <<"configData">>),
       _rest_list_network_connector_endpoint_interfaces |->
         Transport("GET", FALSE, FALSE, <<"e">>),
       _rest_create_inter_project_connection |->
         Transport("PUT", TRUE, TRUE, <<"e">>),
       _rest_delete_inter_project_connection |->
         Transport("PUT", TRUE, TRUE, <<"configData">>),
       _rest_update_inter_project_connection |->
         Transport("PUT", TRUE, TRUE, <<"configData">>),
       _rest_create_port_on_network |->
         Transport("POST", TRUE, TRUE, <<"configData">>),
       _rest_list_ports |->
         Transport("GET", FALSE, FALSE, <<"e">>),
       _rest_delete_port |->
         Transport("DELETE", FALSE, FALSE, <<"e">>),
       _rest_attach_floating_ip_to_port |->
         Transport("POST", TRUE, TRUE, <<"e">>),
       _rest_list_network_connectors |->
         Transport("GET", FALSE, FALSE, <<"e">>),
       _rest_delete_network_connector |->
         Transport("DELETE", FALSE, FALSE, <<"e">>),
       _rest_connect_network_connector_endpoint |->
         Transport("PUT", TRUE, TRUE, <<"configData", "request.json()">>),
       _rest_disconnect_network_connector_endpoint |->
         Transport("PUT", TRUE, TRUE, <<"configData", "request.json()">>),
       _rest_delete_network_connector_endpoint |->
         Transport("DELETE", FALSE, FALSE, <<"e">>),
       _rest_create_network |->
         Transport("POST", TRUE, TRUE, <<"configData">>),
       _rest_list_networks |->
         Transport("GET", FALSE, FALSE, <<"e">>),
       _rest_delete_network |->
         Transport("DELETE", FALSE, FALSE, <<"e">>),
       _rest_create_subnet |->
         Transport("POST", TRUE, TRUE, <<"configData">>),
       _rest_delete_subnet |->
         Transport("DELETE", FALSE, FALSE, <<"e">>),
       _rest_list_subnets |->
         Transport("GET", FALSE, FALSE, <<"e">>),
       _rest_create_security_group |->
         Transport("POST", TRUE, TRUE, <<"configData">>),
       _rest_delete_security_group |->
         Transport("DELETE", FALSE, FALSE, <<"e">>),
       _rest_list_security_groups |->
         Transport("GET", FALSE, FALSE, <<"configData">>),
       _rest_create_security_group_rule |->
         Transport("POST", TRUE, TRUE, <<"configData">>),
       _rest_create_router |->
         Transport("POST", TRUE, TRUE, <<"configData">>),
       _rest_delete_router |->
         Transport("DELETE", FALSE, FALSE, <<"e">>),
       _rest_list_routers |->
         Transport("GET", FALSE, FALSE, <<"configData">>),
       _rest_update_router |->
         Transport("PUT", TRUE, TRUE, <<"configData">>),
       _rest_add_router_interface |->
         Transport("PUT", TRUE, TRUE, <<"configData">>),
       _rest_remove_router_interface |->
         Transport("PUT", TRUE, TRUE, <<"configData">>),
       _rest_list_floating_ips |->
         Transport("GET", FALSE, FALSE, <<"configData">>)  ]

\* The operations of k5lib/network.py: the transport function each calls once,
\* what it returns when the test 'Error' in str(request) fails, and what it
\* returns when the test succeeds.
NetworkOperations ==
    [  create_network_connector |->
         Operation("_rest_create_network_connector", "json_id", "str(request)"),
       create_network_connector_endpoint |->
         Operation("_rest_create_network_connector_endpoint", "json_id", "str(request)"),
       list_network_connector_endpoints |->
         Operation("_rest_list_network_connector_endpoints", "json", "str(request)"),
       get_network_connector_endpoint_id |->
         Operation("_rest_list_network_connector_endpoints", "first_match", "str(request)"),
       get_network_connector_endpoint_info |->
         Operation("_rest_get_network_connector_endpoint_info", "json", "str(request)"),
       list_network_connector_endpoint_interfaces |->
         Operation("_rest_list_network_connector_endpoint_interfaces", "json", "str(request)"),
       create_inter_project_connection |->
         Operation("_rest_create_inter_project_connection", "json_id", "str(request)"),
       delete_inter_project_connection |->
         Operation("_rest_delete_inter_project_connection", "json_id", "str(request)"),
       update_inter_project_connection |->
         Operation("_rest_update_inter_project_connection", "json_id", "str(request)"),
       create_port_on_network |->
         Operation("_rest_create_port_on_network", "json_id", "str(request)"),
       list_ports |->
         Operation("_rest_list_ports", "json", "str(request)"),
       get_port_id |->
         Operation("_rest_list_ports", "first_match", "str(request)"),
       delete_port |->
         Operation("_rest_delete_port", "response", "str(request)"),
       attach_floating_ip_to_port |->
         Operation("_rest_attach_floating_ip_to_port", "response", "str(request)"),
       list_network_connectors |->
         Operation("_rest_list_network_connectors", "json", "str(request)"),
       get_network_connector_id |->
         Operation("_rest_list_network_connectors", "first_match", "str(request)"),
       delete_network_connector |->
         Operation("_rest_delete_network_connector", "response", "str(request)"),
       connect_network_connector_endpoint |->
         Operation("_rest_connect_network_connector_endpoint", "json", "str(request)"),
       disconnect_network_connector_endpoint |->
         Operation("_rest_disconnect_network_connector_endpoint", "json", "str(request)"),
       delete_network_connector_endpoint |->
         Operation("_rest_delete_network_connector_endpoint", "response", "str(request)"),
       create_network |->
         Operation("_rest_create_network", "json_id", "str(request)"),
       delete_network |->
         Operation("_rest_delete_network", "response", "str(request)"),
       list_networks |->
         Operation("_rest_list_networks", "json", "str(request)"),
       get_network_id |->
         Operation("_rest_list_networks", "first_match", "str(request)"),
       create_subnet |->
         Operation("_rest_create_subnet", "json_id", "str(request)"),
       delete_subnet |->
         Operation("_rest_delete_subnet", "response", "str(request)"),
       list_subnets |->
         Operation("_rest_list_subnets", "json", "str(request)"),
       get_subnet_id |->
         Operation("_rest_list_subnets", "first_match", "str(request)"),
       create_security_group |->
         Operation("_rest_create_security_group", "json_id", "str(request)"),
       delete_security_group |->
         Operation("_rest_delete_security_group", "status_code", "str(request)"),
       list_security_groups |->
         Operation("_rest_list_security_groups", "json", "str(request)"),
       get_security_group_id |->
         Operation("_rest_list_security_groups", "first_match", "str(request)"),
       create_security_group_rule |->
         Operation("_rest_create_security_group_rule", "json_id", "str(request)"),
       create_router |->
         Operation("_rest_create_router", "json_id", "str(request)"),
       delete_router |->
         Operation("_rest_delete_router", "status_code", "'Error: ' + str(request)"),
       list_routers |->
         Operation("_rest_list_routers", "json", "str(request)"),
       get_router_id |->
         Operation("_rest_list_routers", "first_match", "str(request)"),
       update_router |->
         Operation("_rest_update_router", "json", "str(request)"),
       add_router_interface |->
         Operation("_rest_add_router_interface", "json_id", "str(request)"),
       remove_router_interface |->
         Operation("_rest_remove_router_interface", "json_id", "str(request)"),
       list_floating_ips |->
         Operation("_rest_list_floating_ips", "json", "str(request)")  ]

\* The transport functions of k5lib/image.py: the HTTP method of the one
\* request, whether the request carries json=configData, whether the function
\* assigns configData at all, and what the log.error calls of the
\* `except requests.exceptions.HTTPError` branch evaluate, in order.
ImageTransports ==
    [  _rest_image_export |->
         Transport("POST", TRUE, TRUE, <<"configData">>),
       _rest_get_export_status |->
         Transport("GET", FALSE, FALSE, <<"text", "headers", "text", "url">>),
       _rest_share_image |->
         Transport("POST", TRUE, TRUE, <<"configData">>),
       _rest_accept_image_share |->
         Transport("PUT", TRUE, TRUE, <<"configData">>),
       _rest_clone_vm |->
         Transport("POST", TRUE, TRUE, <<"text", "headers", "text", "url", "text", "configData">>),
       _rest_get_volume_info |->
         Transport("GET", FALSE, FALSE, <<"text", "headers", "text", "url">>),
       _rest_list_images |->
         Transport("GET", FALSE, FALSE, <<>>),
       _rest_get_image_info |->
         Transport("GET", FALSE, FALSE, <<"configData">>),
       _rest_get_image_import_queue_status |->
         Transport("GET", FALSE, FALSE, <<"text", "headers", "text", "url">>),
       _rest_create_image_member |->
         Transport("POST", TRUE, TRUE, <<"configData">>),
       _rest_register_image |->
         Transport("POST", TRUE, TRUE, <<"configData">>)  ]

\* The operations of k5lib/image.py: the transport function each calls once,
\* what it returns when the test 'Error' in str(request) fails, and what it
\* returns when the test succeeds.
ImageOperations ==
    [  export_image |->
         Operation("_rest_image_export", "json", "str(request)"),
       get_export_status |->
         Operation("_rest_get_export_status", "json", "str(request)"),
       share_image |->
         Operation("_rest_share_image", "json", "str(request)"),
       accept_image_share |->
         Operation("_rest_accept_image_share", "json", "str(request)"),
       clone_vm |->
         Operation("_rest_clone_vm", "json", "str(request)"),
       get_volume_info |->
         Operation("_rest_get_volume_info", "json", "str(request)"),
       list_images |->
         Operation("_rest_list_images", "json", "str(request)"),
       get_image_id |->
         Operation("_rest_list_images", "first_match", "str(request)"),
       get_image_info |->
         Operation("_rest_get_image_info", "json", "str(request)"),
       get_image_import_queue_status |->
         Operation("_rest_get_image_import_queue_status", "json", "str(request)")  ]

Transports == NetworkTransports @@ ImageTransports

Operations == NetworkOperations @@ ImageOperations

\* The transport functions no operation wraps; they are called directly.
Unwrapped == {"_rest_create_image_member", "_rest_register_image"}

Callables == DOMAIN Operations \cup Unwrapped

RestOf(op) == IF op \in Unwrapped THEN op ELSE Operations[op].rest

\* A call: the optional parameters it was made with, the body built from
\* them and the records logged while building it.
Called(params, built) ==
    [params |-> params, json |-> built.json, log |-> built.log]

\* The calls of an operation, over the values of its optional parameters.
Bodies(op) ==
    CASE op = "create_port_on_network" ->
             {Called([port_name |-> n, securitygroup_id |-> g,
                      subnet_id |-> s, ip_address |-> a],
                     _rest_create_port_on_network_configData(n, g, s, a)) :
                  n \in {Given}, g \in OptStr, s \in OptStr, a \in OptStr}
      [] op = "create_subnet" ->
             {Called([az |-> az, enable_dhcp |-> dhcp,
                      allocation_pools |-> pools, dns_nameservers |-> dns,
                      host_routes |-> routes, gateway_ip |-> gw],
                     _rest_create_subnet_configData(az, dhcp, pools, dns,
                                                    routes, gw)) :
                  az \in OptStr, dhcp \in OptBool, pools \in OptList,
                  dns \in OptList, routes \in OptList, gw \in OptStr}
      [] op = "create_security_group_rule" ->
             {Called([protocol |-> p, port_range_min |-> lo,
                      port_range_max |-> hi, remote_ip_prefix |-> ip,
                      remote_group_id |-> g],
                     _rest_create_security_group_rule_configData(p, lo, hi,
                                                                 ip, g)) :
                  p \in OptStr, lo \in OptInt, hi \in OptInt, ip \in OptStr,
                  g \in OptStr}
      [] op = "create_router" ->
             {Called([name |-> n, az |-> az, admin_state_up |-> up],
                     _rest_create_router_configData(n, az, up)) :
                  n \in OptStr, az \in OptStr, up \in OptBool}
      [] op = "update_router" ->
             {Called([name |-> n, az |-> az, admin_state_up |-> up,
                      network_id |-> net, route_table |-> rt],
                     _rest_update_router_configData(n, az, up, net, rt)) :
                  n \in OptStr, az \in OptStr, up \in OptBool, net \in OptStr,
                  rt \in OptList}
      [] op \in {"add_router_interface", "remove_router_interface"} ->
             {Called([subnet_id |-> s, port_id |-> p],
                     _rest_add_router_interface_configData(s, p)) :
                  s \in OptStr, p \in OptStr}
      [] OTHER ->
             {Called(<<>>,
                     Built(IF Transports[RestOf(op)].json THEN Opaque
                                                          ELSE None, <<>>))}

\* What the API, or the network, does with the request.
AllStatuses == {101, 200, 204, 304, 404, 500}

Faults == {"ConnectionError", "Timeout"}

\* A response: its status, and whether its body decodes as JSON.
Answer(status, json) == [t |-> "answer", status |-> status, json |-> json]

\* requests raises a RequestException that is not an HTTPError.
Fault(e) == [t |-> "fault", v |-> e]

Outcomes ==
    {Answer(status, json) : status \in AllStatuses, json \in BOOLEAN}
        \cup {Fault(e) : e \in Faults}

\* The one HTTP request of a transport function.
Request(method, json) == [method |-> method, json |-> json]

Issue_Retrying(method, json) == <<Request(method, json), Request(method, json)>>

Issue(method, json) == <<Request(method, json)>>

\* The log.error calls of an except branch, their arguments evaluated in
\* order: json.dumps(configData) raises NameError where configData was never
\* assigned, request.json() raises JSONDecodeError on a body that is not
\* JSON. The records emitted, and the exception raised (None: none).
RECURSIVE ExceptBranch(_, _, _)
ExceptBranch(logs, configData, json) ==
    IF logs = <<>> THEN [log |-> <<>>, raised |-> None]
    ELSE IF Head(logs) = "configData" /\ ~configData
         THEN [log |-> <<>>, raised |-> Raised("NameError")]
    ELSE IF Head(logs) = "request.json()" /\ ~json
         THEN [log |-> <<>>, raised |-> Raised("JSONDecodeError")]
    ELSE LET rest == ExceptBranch(Tail(logs), configData, json)
         IN [log |-> <<Error(Head(logs))>> \o rest.log,
             raised |-> rest.raised]

\* What an operation returns from its else branch, given the Response.
Payload(kind) == [t |-> "payload", v |-> kind]

Returns(returns, answer) ==
    CASE returns = "response" -> Response(answer.status, "", <<>>)
      [] returns = "status_code" -> PyInt(answer.status)
      [] OTHER -> IF answer.json THEN Payload(returns)
                  ELSE Raised("JSONDecodeError")

\* An operation, given what its transport function returned: the test
\* 'Error' in str(request) and the return of either branch.
Wrap(op, request, answer) ==
    IF op \in Unwrapped THEN [branch |-> "none", result |-> request]
    ELSE IF StrIn(S_Error, Str(request))
         THEN [branch |-> "error",
               result |-> IF Operations[op].error = "str(request)"
                          THEN PyStr(Str(request))
                          ELSE PyStr(S_ErrorColon \o Str(request))]
         ELSE [branch |-> "else",
               result |-> Returns(Operations[op].returns, answer)]

Idle == [pc |-> "idle"]

\* The operation is called: it builds its request and issues it.
Invoke(op, built) ==
    /\ invocation.pc = "idle"
    /\ invocation' = [pc |-> "requested",
                      op |-> op,
                      params |-> built.params,
                      sent |-> Issue(Transports[RestOf(op)].method, built.json),
                      log |-> built.log,
                      outcome |-> Pending,
                      branch |-> "none",
                      result |-> Pending]
    /\ UNCHANGED <<finderVars, lookupVars, callerVars>>

\* The request ends. A fault is an exception no except clause catches; for
\* a status raise_for_status() rejects control enters the except branch;
\* any other response is returned to the operation, which returns from its
\* else branch.
Respond(outcome) ==
    /\ invocation.pc = "requested"
    /\ invocation' =
           IF outcome.t = "fault"
           THEN [invocation EXCEPT !.pc = "returned", !.outcome = outcome,
                                   !.result = Raised(outcome.v)]
           ELSE IF RaisesForStatus(outcome.status)
           THEN [invocation EXCEPT !.pc = "except", !.outcome = outcome]
           ELSE LET w == Wrap(invocation.op,
                              Response(outcome.status, "", <<>>), outcome)
                IN [invocation EXCEPT !.pc = "returned",
                                      !.outcome = outcome,
                                      !.branch = w.branch,
                                      !.result = w.result]
    /\ UNCHANGED <<finderVars, lookupVars, callerVars>>

\* The log.error calls of the except branch; an exception raised by one of
\* them leaves the operation.
Except ==
    /\ invocation.pc = "except"
    /\ LET t == Transports[RestOf(invocation.op)]
           b == ExceptBranch(t.logs, t.configData, invocation.outcome.json)
       IN invocation' =
              IF b.raised # None
              THEN [invocation EXCEPT !.pc = "returned",
                                      !.log = @ \o b.log,
                                      !.result = b.raised]
              ELSE [invocation EXCEPT !.pc = "return_error",
                                      !.log = @ \o b.log]
    /\ UNCHANGED <<finderVars, lookupVars, callerVars>>

\* `return 'Error: ' + str(e)`, and the operation's return of it.
ReturnError ==
    /\ invocation.pc = "return_error"
    /\ LET request == PyStr(S_ErrorColon \o
                            HTTPErrorStr(invocation.outcome.status))
           w == Wrap(invocation.op, request, invocation.outcome)
       IN invocation' = [invocation EXCEPT !.pc = "returned",
                                           !.branch = w.branch,
                                           !.result = w.result]
    /\ UNCHANGED <<finderVars, lookupVars, callerVars>>

InitOps ==
    /\ subnets = <<>>
    /\ ports = <<>>
    /\ pc = "idle"
    /\ args = [subnet_id |-> None, subnet_name |-> None, offset |-> None]
    /\ offset = 0
    /\ subnet_id = None
    /\ dict_subnets = <<>>
    /\ i = 0
    /\ dict_ports = <<>>
    /\ ip_list = <<>>
    /\ result = Pending
    /\ http = <<>>
    /\ listing = <<>>
    /\ lookup = [op |-> "none"]
    /\ invocation = Idle
    /\ callers = [c \in Callers |-> IdleCaller]

NextOps ==
    \/ \E op \in Callables : \E built \in Bodies(op) : Invoke(op, built)
    \/ \E outcome \in Outcomes : Respond(outcome)
    \/ Except
    \/ ReturnError

SpecOps == InitOps /\ [][NextOps]_vars

---------------------------------------------------------------------------
(* find_first_free_ip called by several callers, call after call, while    *)
(* other callers create and delete ports.                                  *)

MaxCalls == 2

MaxRemotePorts == 2

\* The subnet the callers ask about, and the addresses other callers bind.
Subnet30 == Subnet(IdAB, NameX, Cidr(IPv4(10, 0, 0, 0), 30))

BindableAddresses == {IPv4(10, 0, 0, 1), IPv4(10, 0, 0, 2)}

MethodOf_Post(rest) == "POST"

\* The HTTP method of the one request a transport function issues.
MethodOf(rest) == Transports[rest].method

\* The request list_subnets / list_ports issues, and the status it is
\* answered with.
Listing(rest, resource, status) ==
    [method |-> MethodOf(rest), resource |-> resource, status |-> status]

\* A caller calls find_first_free_ip: the locals are new, ip_list = [],
\* "Verify offset", and the return of 'Error: no subnet ID available'.
FinderCall(c, sid, off) ==
    /\ callers[c].pc \in {"idle", "done"}
    /\ callers[c].calls < MaxCalls
    /\ callers' = [callers EXCEPT ![c] =
           [pc |-> IF ~Truthy(sid) THEN "done" ELSE "list_subnets",
            calls |-> @.calls + 1,
            previous |-> @.result,
            bound |-> FALSE,
            subnet_id |-> sid,
            offset |-> VerifyOffset(off),
            dict_subnets |-> <<>>,
            i |-> 0,
            dict_ports |-> <<>>,
            ip_list |-> <<>>,
            result |-> IF ~Truthy(sid) THEN NoSubnetIdAvailable ELSE Pending,
            http |-> <<>>]]
    /\ UNCHANGED <<finderVars, lookupVars, opVars>>

\* subnet_list = list_subnets(...), and the loop over dict_subnets up to the
\* first subnet it selects.
FinderListSubnets(c, status) ==
    /\ callers[c].pc = "list_subnets"
    /\ LET subnet_list == list_subnets(status, subnets)
           sent == Append(callers[c].http,
                          Listing("_rest_list_subnets", "subnets", status))
       IN callers' = [callers EXCEPT ![c] =
              IF subnet_list.t = "str"
              THEN [@ EXCEPT !.pc = "done", !.http = sent,
                             !.result = Raised("TypeError")]
              ELSE LET first == NextSubnet(subnet_list.coll, @.subnet_id.v, 1)
                   IN [@ EXCEPT !.pc = IF first = 0 THEN "done"
                                                    ELSE "list_ports",
                                !.http = sent,
                                !.dict_subnets = subnet_list.coll,
                                !.i = first,
                                !.result = IF first = 0 THEN None ELSE Pending]]
    /\ UNCHANGED <<finderVars, lookupVars, opVars>>

\* port_list = list_ports(...): the API answers with the ports of this
\* moment; the reserved addresses are appended to ip_list.
FinderListPorts(c, status) ==
    /\ callers[c].pc = "list_ports"
    /\ LET port_list == list_ports(status, ports)
           sent == Append(callers[c].http,
                          Listing("_rest_list_ports", "ports", status))
       IN callers' = [callers EXCEPT ![c] =
              IF port_list.t = "str"
              THEN [@ EXCEPT !.pc = "done", !.http = sent,
                             !.result = Raised("TypeError")]
              ELSE [@ EXCEPT !.pc = "scan", !.http = sent,
                             !.dict_ports = port_list.coll,
                             !.ip_list = @ \o CollectPorts(port_list.coll,
                                                           callers[c].subnet_id.v)]]
    /\ UNCHANGED <<finderVars, lookupVars, opVars>>

\* The loop over network.hosts() and the return of the first free address;
\* without one, the loop over dict_subnets goes on, and the call returns
\* None when no subnet is left.
FinderScan(c) ==
    /\ callers[c].pc = "scan"
    /\ LET self == callers[c]
           network == IPv4Network(self.dict_subnets[self.i].cidr)
           free == ScanHosts(hosts(network), network, self.offset, self.ip_list)
           next == NextSubnet(self.dict_subnets, self.subnet_id.v, self.i + 1)
       IN callers' = [callers EXCEPT ![c] =
              IF free # None
              THEN [@ EXCEPT !.pc = "done", !.result = free,
                             !.bound = \E j \in 1..Len(ports) :
                                         \E k \in 1..Len(ports[j].fixed_ips) :
                                           ports[j].fixed_ips[k].ip_address = free.v]
              ELSE IF next = 0
                   THEN [@ EXCEPT !.pc = "done", !.result = None]
                   ELSE [@ EXCEPT !.pc = "list_ports", !.i = next]]
    /\ UNCHANGED <<finderVars, lookupVars, opVars>>

\* Another caller's create_port_on_network(..., subnet_id, ip_address)
\* succeeds: the API binds the address to a new port.
CreatePort(a) ==
    /\ Len(ports) < MaxRemotePorts
    /\ \A j \in 1..Len(ports) : ports[j].fixed_ips[1].ip_address # a
    /\ ports' = Append(ports, Port(<<"p", DigitChar(a % 256)>>,
                                   <<FixedIp(IdAB, a)>>))
    /\ UNCHANGED <<subnets, pc, args, offset, subnet_id, dict_subnets, i,
                   dict_ports, ip_list, result, http>>
    /\ UNCHANGED <<lookupVars, opVars, callerVars>>

\* Another caller's delete_port(..., port_id) succeeds.
DeletePort(j) ==
    /\ j \in 1..Len(ports)
    /\ ports' = SubSeq(ports, 1, j - 1) \o SubSeq(ports, j + 1, Len(ports))
    /\ UNCHANGED <<subnets, pc, args, offset, subnet_id, dict_subnets, i,
                   dict_ports, ip_list, result, http>>
    /\ UNCHANGED <<lookupVars, opVars, callerVars>>

InitCallers ==
    /\ subnets = <<Subnet30>>
    /\ ports = <<>>
    /\ pc = "idle"
    /\ args = [subnet_id |-> None, subnet_name |-> None, offset |-> None]
    /\ offset = 0
    /\ subnet_id = None
    /\ dict_subnets = <<>>
    /\ i = 0
    /\ dict_ports = <<>>
    /\ ip_list = <<>>
    /\ result = Pending
    /\ http = <<>>
    /\ listing = <<>>
    /\ lookup = [op |-> "none"]
    /\ invocation = Idle
    /\ callers = [c \in Callers |-> IdleCaller]

NextCallers ==
    \/ \E c \in Callers, sid \in SubnetIdArgs : FinderCall(c, sid, None)
    \/ \E c \in Callers, status \in Statuses : FinderListSubnets(c, status)
    \/ \E c \in Callers, status \in Statuses : FinderListPorts(c, status)
    \/ \E c \in Callers : FinderScan(c)
    \/ \E a \in BindableAddresses : CreatePort(a)
    \/ \E j \in 1..MaxRemotePorts : DeletePort(j)

SpecCallers == InitCallers /\ [][NextCallers]_vars

---------------------------------------------------------------------------
(* What the claims speak of.                                               *)

Done == pc = "done"

ReturnsAddress == Done /\ result.t = "IPv4Address"

\* The offset of the call: 0 when omitted.
OffsetArg == IF args.offset.t = "NoneType" THEN 0 ELSE args.offset.v

\* The target subnet ID: the one passed, or the one resolved from the name.
Target == subnet_id.v

\* The target subnet is in the subnet listing the call fetched.
TargetListed == \E k \in 1..Len(dict_subnets) : dict_subnets[k].id = Target

TargetSubnet ==
    dict_subnets[CHOOSE k \in 1..Len(dict_subnets) : dict_subnets[k].id = Target]

NetworkAddress(cidr) == cidr.addr

LastAddress(cidr) == cidr.addr + Pow2(32 - cidr.len) - 1

InCidr(a, cidr) == NetworkAddress(cidr) <= a /\ a <= LastAddress(cidr)

\* The usable host addresses of a CIDR: all but the first and the last
\* address, and both addresses of a point-to-point /31.
HostAddresses(cidr) ==
    IF cidr.len >= 31 THEN NetworkAddress(cidr)..LastAddress(cidr)
    ELSE (NetworkAddress(cidr) + 1)..(LastAddress(cidr) - 1)

\* The addresses a port listing binds as fixed IPs on subnet `sid`.
AllocatedOn(coll, sid) ==
    {coll[j].fixed_ips[k].ip_address :
        <<j, k>> \in {<<j, k>> \in (1..Len(coll)) \X (1..253) :
                        /\ k <= Len(coll[j].fixed_ips)
                        /\ coll[j].fixed_ips[k].subnet_id = sid}}

\* The host addresses of `subnet` above network_address + off that the port
\* listing does not bind on that subnet.
FreeAddresses(subnet, coll, off) ==
    {a \in HostAddresses(subnet.cidr) :
        /\ a > NetworkAddress(subnet.cidr) + off
        /\ a \notin AllocatedOn(coll, subnet.id)}

\* What the call returns for offset `off` on the listings it fetched.
ResultAt(off) ==
    SubnetLoop(dict_subnets, NextSubnet(dict_subnets, Target, 1), dict_ports,
               Target, off, <<>>)

OffsetValues == (0..MaxOffset) \cup {10}

---------------------------------------------------------------------------
(* The claims.                                                             *)

\* C1: when find_first_free_ip returns an address, it is the numerically
\* smallest host address of the target subnet that is strictly above
\* network_address + offset and not bound as a fixed IP on the target subnet.
C1_SmallestFreeHost ==
    (ReturnsAddress /\ TargetListed) =>
        LET free == FreeAddresses(TargetSubnet, dict_ports, OffsetArg)
        IN /\ result.v \in free
           /\ \A a \in free : result.v <= a

\* C2: find_first_free_ip never returns an address that the port listing
\* fetched during the call binds as a fixed IP on the target subnet.
C2_NeverAllocated ==
    ReturnsAddress => result.v \notin AllocatedOn(dict_ports, Target)

\* C2 happens: an address is returned although a lower host address past the
\* offset is bound on the target subnet.
C2_Witness ==
    /\ ReturnsAddress
    /\ TargetListed
    /\ \E a \in AllocatedOn(dict_ports, Target) :
          /\ a \in HostAddresses(TargetSubnet.cidr)
          /\ a > NetworkAddress(TargetSubnet.cidr) + OffsetArg
          /\ a < result.v

\* C3: every address returned lies inside the target subnet's CIDR, strictly
\* above network_address + offset, and is neither the network address nor
\* the broadcast (last) address of the CIDR.
C3_UsableHostOfTarget ==
    (ReturnsAddress /\ TargetListed) =>
        /\ InCidr(result.v, TargetSubnet.cidr)
        /\ result.v > NetworkAddress(TargetSubnet.cidr) + OffsetArg
        /\ result.v # NetworkAddress(TargetSubnet.cidr)
        /\ result.v # LastAddress(TargetSubnet.cidr)

\* C4: for the same listings and offsets o1 <= o2, the address returned for
\* o1 is at most the address returned for o2, and when o1 finds no address
\* o2 finds none either (o1 is the offset of the call).
C4_OffsetMonotone ==
    (Done /\ result.t \in {"IPv4Address", "NoneType"}) =>
        \A o2 \in OffsetValues :
            OffsetArg <= o2 =>
                /\ (result.t = "IPv4Address" /\ ResultAt(o2).t = "IPv4Address")
                       => result.v <= ResultAt(o2).v
                /\ result = None => ResultAt(o2) = None

\* C5: on 10.0.0.0/24, with one port holding 10.0.0.5 the call returns
\* 10.0.0.1 for offset 0 or no offset and 10.0.0.11 for offset 10; with
\* every host address but 10.0.0.254 allocated and offset 0 it returns
\* 10.0.0.254.
C5_Scenarios ==
    (/\ Done
     /\ dict_subnets = <<Subnet24>>
     /\ Target = IdAB
     /\ http[Len(http)] = Get("ports", 200)) =>
        /\ (dict_ports = <<PortHolding5>> /\ OffsetArg = 0)
               => result = IPv4Address(IPv4(10, 0, 0, 1))
        /\ (dict_ports = <<PortHolding5>> /\ OffsetArg = 10)
               => result = IPv4Address(IPv4(10, 0, 0, 11))
        /\ (dict_ports = <<PortHoldingAllBut254>> /\ OffsetArg = 0)
               => result = IPv4Address(IPv4(10, 0, 0, 254))

\* C5 happens: the call on the /24 with every host but 10.0.0.254 allocated
\* has returned.
C5_Witness ==
    /\ Done
    /\ dict_subnets = <<Subnet24>>
    /\ dict_ports = <<PortHoldingAllBut254>>
    /\ args.offset = PyInt(0)
    /\ result = IPv4Address(IPv4(10, 0, 0, 254))

\* C6: called with a subnet_name that matches no listed subnet, the call
\* fails with a not-found error result and goes no further: it issues no
\* request after the name lookup.
C6_UnknownNameIsNotFound ==
    (/\ Done
     /\ Truthy(args.subnet_name)
     /\ http[1].status = 200
     /\ \A k \in 1..Len(subnets) : subnets[k].name # args.subnet_name.v) =>
        /\ result.t = "str"
        /\ StrIn(S_Error, result.v)
        /\ Len(http) = 1

\* C7: called with a subnet_id that no listed subnet has, the call fails
\* with a not-found error result.
C7_UnknownIdIsNotFound ==
    (/\ Done
     /\ ~Truthy(args.subnet_name)
     /\ Truthy(args.subnet_id)
     /\ http # <<>>
     /\ http[1].status = 200
     /\ \A k \in 1..Len(subnets) : subnets[k].id # args.subnet_id.v) =>
        /\ result.t = "str"
        /\ StrIn(S_Error, result.v)

\* C8: called with neither subnet_id nor subnet_name, the call returns
\* 'Error: no subnet ID available' and issues no HTTP request.
C8_NoIdNoRequest ==
    (/\ pc # "idle"
     /\ ~Truthy(args.subnet_id)
     /\ ~Truthy(args.subnet_name)) =>
        /\ Done
        /\ result = PyStr(S_NoSubnetId)
        /\ http = <<>>

\* C8 happens: a call without subnet_id and subnet_name has returned.
C8_Witness ==
    /\ Done
    /\ args.subnet_id = None
    /\ args.subnet_name = None
    /\ result.t = "str"

\* C9: when the target subnet is listed and none of its host addresses is
\* both above network_address + offset and unallocated, the call returns
\* None.
C9_ExhaustedReturnsNone ==
    (/\ Done
     /\ result.t # "raise"
     /\ TargetListed
     /\ FreeAddresses(TargetSubnet, dict_ports, OffsetArg) = {}) =>
        result = None

\* The positions of the listing whose resource has the requested name.
Matches == {k \in 1..Len(listing) : listing[k].name = lookup.name}

\* C10: for every get_*_id operation, when the listing holds at least one
\* resource with the requested name, the operation returns the ID of the
\* first such resource in listing order.
C10_FirstMatchInListingOrder ==
    (lookup.op # "none" /\ lookup.status = 200 /\ Matches # {}) =>
        lookup.result = PyStr(listing[Min(Matches)].id)

\* C10 happens: a lookup over a listing with two resources of the requested
\* name, the first of them not at the head of the listing, has returned.
C10_Witness ==
    /\ lookup.op = "get_network_connector_endpoint_id"
    /\ lookup.status = 200
    /\ Cardinality(Matches) >= 2
    /\ Min(Matches) > 1
    /\ lookup.result.t = "str"

\* C11: every get_*_id operation, the listing answered with 200 and holding
\* no resource of the requested name, returns a str that carries the
\* 'Error' marker: it neither raises nor returns a value without the marker.
C11_ZeroMatchIsNotFound ==
    (lookup.op # "none" /\ lookup.status = 200 /\ Matches = {}) =>
        (lookup.result.t = "str" /\ StrIn(S_Error, lookup.result.v))

\* C12: a get_*_id operation returns the ID of a listed resource only when
\* that resource's name equals the requested name: a listed name differing
\* in letter case, or a proper part of the requested name, or containing it,
\* is never the one whose ID is returned.
C12_ExactNameOnly ==
    (lookup.op # "none" /\ lookup.status = 200) =>
        \A k \in 1..Len(listing) :
            lookup.result = PyStr(listing[k].id) =>
                listing[k].name = lookup.name

\* C12 happens: 'x' is looked up in a listing that holds 'X' and 'xx' ahead
\* of 'x', and the ID of the third resource is returned.
C12_Witness ==
    /\ lookup.op = "get_subnet_id"
    /\ lookup.status = 200
    /\ lookup.name = NameX
    /\ Len(listing) = 3
    /\ listing[1].name = NameUpperX
    /\ listing[2].name = NameXX
    /\ listing[3].name = NameX
    /\ lookup.result = PyStr(listing[3].id)

\* The same for a requested name with proper parts: 'xx' is looked up in a
\* listing that holds 'x' and 'X' only, and no ID is returned.
C12_PartsListed ==
    /\ lookup.op = "get_router_id"
    /\ lookup.status = 200
    /\ lookup.name = NameXX
    /\ {listing[k].name : k \in 1..Len(listing)} = {NameX, NameUpperX}
    /\ lookup.result = PyStr(S_NotFound)

\* The invocation of a resource operation has returned, or raised.
Returned == invocation.pc = "returned"

\* The request was answered with a status raise_for_status() rejects.
HttpError ==
    /\ invocation.pc \in {"except", "return_error", "returned"}
    /\ invocation.outcome.t = "answer"
    /\ RaisesForStatus(invocation.outcome.status)

\* The operation ended in a str that carries the 'Error' marker.
FailureValue ==
    invocation.result.t = "str" /\ StrIn(S_Error, invocation.result.v)

\* The operations that build a request body from optional parameters.
RequestBuilding ==
    {"create_port_on_network", "create_subnet", "create_security_group_rule",
     "create_router", "update_router", "add_router_interface",
     "remove_router_interface"}

\* A JSON value holds null somewhere: it is None, or a dict or list one of
\* whose values does.
RECURSIVE HasNull(_)
HasNull(x) ==
    \/ x = None
    \/ /\ x.t \in {"dict", "list"}
       /\ \E k \in DOMAIN x.v : HasNull(x.v[k])

\* C13: the body a request-building operation sends holds no null, at any
\* nesting level, whatever optional parameters are given.
C13_NoNullInBody ==
    (invocation.pc # "idle" /\ invocation.op \in RequestBuilding) =>
        ~HasNull(invocation.sent[1].json)

\* The operation took the response for a success: it returned from its else
\* branch, or (a transport function called directly) returned the Response.
TreatedAsSuccess ==
    \/ invocation.branch = "else"
    \/ invocation.branch = "none" /\ invocation.result.t = "Response"

\* C14: a response whose status is not 2xx (1xx and 3xx as well as 4xx and
\* 5xx) is never treated as a success by the operation that receives it.
C14_NonSuccessIsFailure ==
    (/\ Returned
     /\ invocation.outcome.t = "answer"
     /\ invocation.outcome.status \notin 200..299) =>
        ~TreatedAsSuccess

\* C15: an operation whose request ends in a transport-level fault returns
\* the failure value, a str with the 'Error' marker; it does not raise.
C15_FaultIsFailureValue ==
    (Returned /\ invocation.outcome.t = "fault") => FailureValue

\* C16: an operation whose request is answered 4xx or 5xx ends in the
\* failure value; no exception is raised while the failure is handled.
C16_HttpErrorIsFailureValue ==
    (Returned /\ HttpError) => FailureValue

\* C17: when a request was answered 4xx or 5xx and the failure value is about
\* to be returned, or has been, an error record has been logged.
C17_LoggedBeforeReturned ==
    (/\ HttpError
     /\ \/ invocation.pc = "return_error"
        \/ Returned /\ invocation.result.t = "str") =>
        \E k \in 1..Len(invocation.log) : invocation.log[k].level = "error"

\* C18: an invocation of a resource operation issues exactly one HTTP
\* request, whether it succeeds or fails: none is added after the first.
C18_ExactlyOneRequest ==
    invocation.pc # "idle" => Len(invocation.sent) = 1

\* C18 happens: export_image has returned the decoded body of a 200
\* response, having issued its one POST and nothing after it.
C18_Witness ==
    /\ Returned
    /\ invocation.op = "export_image"
    /\ invocation.outcome = Answer(200, TRUE)
    /\ invocation.result = Payload("json")
    /\ invocation.sent = <<Request("POST", Opaque)>>

\* The call of caller c has returned an address.
ReturnedAddress(c) ==
    callers[c].pc = "done" /\ callers[c].result.t = "IPv4Address"

\* Every request a find_first_free_ip call has issued is a GET of the
\* subnets or of the ports collection.
OnlyListingGets ==
    \A c \in Callers : \A k \in 1..Len(callers[c].http) :
        /\ callers[c].http[k].method = "GET"
        /\ callers[c].http[k].resource \in {"subnets", "ports"}

\* A call that returned an address fetched both listings itself, and the
\* address is what a first call returns on the listings this call fetched.
FreshEachCall ==
    \A c \in Callers : ReturnedAddress(c) =>
        LET self == callers[c]
        IN /\ \E k \in 1..Len(self.http) : self.http[k].resource = "subnets"
           /\ \E k \in 1..Len(self.http) : self.http[k].resource = "ports"
           /\ self.result =
                  SubnetLoop(self.dict_subnets,
                             NextSubnet(self.dict_subnets, self.subnet_id.v, 1),
                             self.dict_ports, self.subnet_id.v, self.offset,
                             <<>>)

\* A step of a find_first_free_ip call leaves the remote collections as
\* they are.
RemoteUntouched ==
    callers' # callers => (subnets' = subnets /\ ports' = ports)

\* The port listing a call fetches is the remote collection of that moment.
FetchIsCurrent ==
    \A c \in Callers :
        (callers[c].pc = "list_ports" /\ callers'[c].pc = "scan") =>
            callers'[c].dict_ports = ports

\* C19: find_first_free_ip issues only GET listing requests, no step of it
\* changes the remote subnets or ports, and every call fetches both
\* listings anew and answers from them alone.
C19_ReadOnlyAndStateless ==
    /\ [](OnlyListingGets /\ FreshEachCall)
    /\ [][RemoteUntouched /\ FetchIsCurrent]_vars

\* C19 happens: a caller's first call returned 10.0.0.2 while 10.0.0.1 was
\* bound; the binding was deleted; its second call returned 10.0.0.1, from
\* a listing that is the remote collection.
C19_Witness ==
    /\ callers[1].calls = 2
    /\ ReturnedAddress(1)
    /\ callers[1].previous = IPv4Address(IPv4(10, 0, 0, 2))
    /\ callers[1].result = IPv4Address(IPv4(10, 0, 0, 1))
    /\ callers[1].dict_ports = ports
    /\ Len(callers[1].http) = 2

\* C20: the address a call returns is bound by no port of the listing that
\* call fetched; that is all it guarantees.
C20_FreeInFetchedListing ==
    \A c \in Callers : ReturnedAddress(c) =>
        callers[c].result.v \notin
            AllocatedOn(callers[c].dict_ports, callers[c].subnet_id.v)

\* C20 happens: two callers fetched the same port listing, another caller
\* then bound 10.0.0.1, and both calls returned 10.0.0.1, each at a moment
\* when a remote port already held it.
C20_Witness ==
    /\ ReturnedAddress(1)
    /\ ReturnedAddress(2)
    /\ callers[1].result = callers[2].result
    /\ callers[1].dict_ports = callers[2].dict_ports
    /\ callers[1].bound
    /\ callers[2].bound
    /\ callers[1].result.v \in AllocatedOn(ports, IdAB)

RouterInterfaceOps == {"add_router_interface", "remove_router_interface"}

\* C21: add_router_interface and remove_router_interface send their PUT
\* whatever subnet_id and port_id are: the body holds exactly the keys that
\* were given (both, one, or none), and what the operation returns follows
\* from the answer alone: the failure value only after a 4xx or 5xx, the
\* 'id' of the decoded body after a 2xx.
C21_NoLocalValidation ==
    (invocation.pc # "idle" /\ invocation.op \in RouterInterfaceOps) =>
        LET json == invocation.sent[1].json
            given == {k \in DOMAIN invocation.params :
                         invocation.params[k] # None}
        IN /\ Len(invocation.sent) = 1
           /\ invocation.sent[1].method = "PUT"
           /\ json.t = "dict"
           /\ DOMAIN json.v = given
           /\ \A k \in given : json.v[k] = invocation.params[k]
           /\ (Returned /\ FailureValue) => HttpError
           /\ (Returned /\ invocation.outcome = Answer(200, TRUE)) =>
                  invocation.result = Payload("json_id")

\* C21 happens: add_router_interface was called with both subnet_id and
\* port_id, the PUT carried both, and the API's 200 was returned as the ID.
C21_Witness ==
    /\ Returned
    /\ invocation.op = "add_router_interface"
    /\ invocation.params = [subnet_id |-> Given, port_id |-> Given]
    /\ invocation.sent =
           <<Request("PUT", PyDict([subnet_id |-> Given, port_id |-> Given]))>>
    /\ invocation.outcome = Answer(200, TRUE)
    /\ invocation.result = Payload("json_id")

\* The same with neither: remove_router_interface sent an empty body and
\* returned the API's rejection.
C21_NeitherGiven ==
    /\ Returned
    /\ invocation.op = "remove_router_interface"
    /\ invocation.params = [subnet_id |-> None, port_id |-> None]
    /\ DOMAIN invocation.sent[1].json.v = {}
    /\ HttpError
    /\ FailureValue

\* The call fetched a port listing.
PortsListed ==
    \E k \in 1..Len(http) : http[k].resource = "ports" /\ http[k].status = 200

\* C22: the allocated addresses find_first_free_ip collects are exactly the
\* fixed-IP addresses of the fetched port listing whose subnet ID equals the
\* target subnet ID.
C22_AllocatedIsTargetOnly ==
    (Done /\ PortsListed) =>
        Range(ip_list) = AllocatedOn(dict_ports, Target)

\* C23: an address returned by find_first_free_ip comes from the listed
\* subnet whose ID equals the target subnet ID: that subnet is listed and the
\* address belongs to its CIDR.
C23_FromTargetCidrOnly ==
    ReturnsAddress =>
        /\ TargetListed
        /\ InCidr(result.v, TargetSubnet.cidr)

\* The last request of the call was a listing that failed.
ListingFailed == http # <<>> /\ RaisesForStatus(http[Len(http)].status)

\* C24: when the subnet listing or the port listing of find_first_free_ip
\* fails, the call returns a str that carries the 'Error' marker: it neither
\* raises nor returns an address.
C24_FailedListingIsErrorValue ==
    (Done /\ ListingFailed) =>
        result.t = "str" /\ StrIn(S_Error, result.v)

\* The requests of the call were all answered with 200.
AllListed == \A k \in 1..Len(http) : http[k].status = 200

\* C25: when subnet_name is given, the target subnet ID is the one
\* get_subnet_id resolves from the name, whatever subnet_id was passed, and
\* the result is the one the name alone determines: 'Error: no subnet ID
\* available' when nothing is resolved, and otherwise what the loop over the
\* listings returns for the resolved ID.
C25_NameOverridesId ==
    (Done /\ Truthy(args.subnet_name)) =>
        LET id == get_subnet_id(http[1].status, subnets, args.subnet_name.v)
        IN /\ http[1] = Get("subnets", http[1].status)
           /\ subnet_id = id
           /\ ~Truthy(id) => result = NoSubnetIdAvailable
           /\ (Truthy(id) /\ AllListed) =>
                  result = SubnetLoop(subnets, NextSubnet(subnets, id.v, 1),
                                      ports, id.v, offset, <<>>)

\* C25 happens: both subnet_id and subnet_name were passed, the name resolved
\* to another subnet than the one passed, and the address returned belongs to
\* the resolved subnet and not to the passed one.
C25_Witness ==
    /\ ReturnsAddress
    /\ args.subnet_id = PyStr(IdAB)
    /\ args.subnet_name = PyStr(NameX)
    /\ subnet_id = PyStr(IdC)
    /\ \E k \in 1..Len(dict_subnets) : dict_subnets[k].id = IdAB
    /\ InCidr(result.v, TargetSubnet.cidr)
    /\ \A k \in 1..Len(dict_subnets) :
          dict_subnets[k].id = IdAB => ~InCidr(result.v, dict_subnets[k].cidr)

\* C26: within one find_first_free_ip call the subnet listing, preceded by
\* the subnet listing of the name resolution when subnet_name is given, comes
\* before every port listing, and a port listing is requested only when the
\* fetched subnet listing holds the subnet whose ID is the target ID.
C26_SubnetsBeforePorts ==
    LET first == IF Truthy(args.subnet_name) THEN 2 ELSE 1
    IN /\ \A k \in 1..Len(http) :
              http[k].resource = "ports" =>
                  /\ k > first
                  /\ \A j \in 1..first : http[j] = Get("subnets", 200)
       /\ (\E k \in 1..Len(http) : http[k].resource = "ports") => TargetListed

\* The operations whose body goes through a null-removing loop, with the key
\* the body is wrapped in and the keys of its required fields.
Stripping ==
    [create_subnet |->
         [top |-> "subnet",
          required |-> {"name", "network_id", "ip_version", "cidr"}],
     create_security_group_rule |->
         [top |-> "security_group_rule",
          required |-> {"direction", "ethertype", "security_group_id"}],
     create_router |-> [top |-> "router", required |-> {}],
     update_router |-> [top |-> "router", required |-> {}]]

\* The body key an optional parameter is sent under.
BodyKey(param) ==
    CASE param = "az" -> "availability_zone"
      [] param = "route_table" -> "routes"
      [] param = "network_id" -> "external_gateway_info"
      [] OTHER -> param

\* The value an optional parameter is sent as.
BodyValue(param, value) ==
    IF param = "network_id" THEN PyDict([network_id |-> value]) ELSE value

\* C27: in the body sent by create_subnet, create_security_group_rule,
\* create_router and update_router, an optional field is absent exactly when
\* its parameter is None: every other value, the falsy ones included (False,
\* 0, the empty list, the empty str), is sent as given; and every required
\* field is present.
C27_OnlyNoneIsStripped ==
    (invocation.pc # "idle" /\ invocation.op \in DOMAIN Stripping) =>
        LET params == invocation.params
            body == invocation.sent[1].json.v[Stripping[invocation.op].top].v
        IN /\ Stripping[invocation.op].required \subseteq DOMAIN body
           /\ \A k \in Stripping[invocation.op].required : body[k] # None
           /\ \A p \in DOMAIN params :
                  IF params[p] = None
                  THEN BodyKey(p) \notin DOMAIN body
                  ELSE /\ BodyKey(p) \in DOMAIN body
                       /\ body[BodyKey(p)] = BodyValue(p, params[p])

\* C27 happens: create_subnet was called with enable_dhcp=False and empty
\* lists for dns_nameservers and host_routes, and the body sent holds all
\* three as given.
C27_Witness ==
    /\ invocation.pc # "idle"
    /\ invocation.op = "create_subnet"
    /\ invocation.params.enable_dhcp = PyBool(FALSE)
    /\ invocation.params.dns_nameservers = PyList(<<>>)
    /\ invocation.params.host_routes = PyList(<<>>)
    /\ invocation.params.allocation_pools = None
    /\ LET subnet == invocation.sent[1].json.v.subnet.v
       IN /\ subnet.enable_dhcp = PyBool(FALSE)
          /\ subnet.dns_nameservers = PyList(<<>>)
          /\ subnet.host_routes = PyList(<<>>)
          /\ "allocation_pools" \notin DOMAIN subnet

\* The same for port_range_min=0 in create_security_group_rule and for
\* admin_state_up=False with an empty route list in update_router.
C27_ZeroAndFalseSent ==
    \/ /\ invocation.pc # "idle"
       /\ invocation.op = "create_security_group_rule"
       /\ invocation.params.port_range_min = PyInt(0)
       /\ invocation.sent[1].json.v.security_group_rule.v.port_range_min
              = PyInt(0)
    \/ /\ invocation.pc # "idle"
       /\ invocation.op = "update_router"
       /\ invocation.params.admin_state_up = PyBool(FALSE)
       /\ invocation.params.route_table = PyList(<<>>)
       /\ invocation.sent[1].json.v.router.v.admin_state_up = PyBool(FALSE)
       /\ invocation.sent[1].json.v.router.v.routes = PyList(<<>>)

\* C28: the body of create_port_on_network holds fixed_ips exactly when
\* ip_address is given, as one entry of that address and the subnet_id
\* parameter, and security_groups exactly when securitygroup_id is given, as
\* the list of that one ID; without ip_address the body holds no other keys
\* than the four required ones and security_groups, so that a subnet_id
\* given alone is not sent.
C28_FixedIpsIffIpAddress ==
    (invocation.pc # "idle" /\ invocation.op = "create_port_on_network") =>
        LET params == invocation.params
            port == invocation.sent[1].json.v.port.v
        IN /\ DOMAIN port =
                  {"network_id", "name", "admin_state_up", "availability_zone"}
                  \cup (IF params.ip_address # None THEN {"fixed_ips"}
                                                     ELSE {})
                  \cup (IF params.securitygroup_id # None
                        THEN {"security_groups"} ELSE {})
           /\ params.ip_address # None =>
                  port.fixed_ips =
                      PyList(<<PyDict([ip_address |-> params.ip_address,
                                       subnet_id |-> params.subnet_id])>>)
           /\ params.securitygroup_id # None =>
                  port.security_groups = PyList(<<params.securitygroup_id>>)

\* C28 happens: create_port_on_network was called with subnet_id and
\* securitygroup_id and without ip_address; the body sent holds the one
\* security group and no fixed_ips.
C28_Witness ==
    /\ invocation.pc # "idle"
    /\ invocation.op = "create_port_on_network"
    /\ invocation.params.subnet_id = Given
    /\ invocation.params.ip_address = None
    /\ invocation.params.securitygroup_id = Given
    /\ LET port == invocation.sent[1].json.v.port.v
       IN /\ "fixed_ips" \notin DOMAIN port
          /\ port.security_groups = PyList(<<Given>>)

\* What a transport function returns in its except branch:
\* 'Error: ' + str(e).
TransportFailure(status) == PyStr(S_ErrorColon \o HTTPErrorStr(status))

\* C29: an operation whose transport function returned its failure string
\* returns exactly that string: nothing is prepended or appended and no
\* payload is decoded.
C29_FailureStringUnchanged ==
    (Returned /\ HttpError /\ invocation.result.t # "raise") =>
        invocation.result = TransportFailure(invocation.outcome.status)

\* C30: a get_*_id operation whose listing request is answered 4xx or 5xx
\* returns the transport failure string, which differs from what the
\* operation returns when no listed resource has the name.
C30_FailedListingIsFailureString ==
    (lookup.op # "none" /\ RaisesForStatus(lookup.status)) =>
        /\ lookup.result = TransportFailure(lookup.status)
        /\ lookup.result \notin
               {PyStr(S_NotFound), PyStr(S_ImageNotFound), PyStr(<<"0">>)}

============================================================================
